---- MODULE Spec2Model ----
(***************************************************************************)
(* Model of color_transfer.ipynb: color_transfer(source, target) and       *)
(* image_stats(image), called from the notebook's driver cell.             *)
(*                                                                         *)
(* Numbers.  The arithmetic stages run on numpy float32 values.  A float   *)
(* is modelled as a record: a finite value held in units of 1/FracUnit,    *)
(* or one of the IEEE-754 specials NaN, +inf, -inf, with the IEEE rules    *)
(* for the specials (x/0, 0/0, inf*0, ...).  Finite results are rounded to *)
(* the nearest unit, so the model has less precision than float32 but the  *)
(* same structure.                                                         *)
(*                                                                         *)
(* OpenCV.  cv2.cvtColor is a library call.  COLOR_BGR2LAB is modelled by  *)
(* its 8-bit results on a palette of colours; COLOR_LAB2BGR is left        *)
(* uninterpreted, as a per-pixel function of the 8-bit L*a*b triple.       *)
(***************************************************************************)
EXTENDS Integers, Sequences, FiniteSets, TLC

\* Bounds of the model.
MaxPixels == 2
MaxCalls == 2

\* Resolution of the modelled float32 values: 1/FracUnit.
FracUnit == 64

-----------------------------------------------------------------------------
(* float32 values and arithmetic *)

Fin(n) == [k |-> "fin", v |-> n]
NaN == [k |-> "nan", v |-> 0]
Inf(s) == [k |-> "inf", v |-> s]

IsFin(x) == x.k = "fin"
IsNaN(x) == x.k = "nan"

\* An integer as a float (uint8 -> float32 is exact).
FromInt(n) == Fin(n * FracUnit)

Sgn(n) == IF n > 0 THEN 1 ELSE IF n < 0 THEN -1 ELSE 0

\* n/d rounded to the nearest integer, d > 0.
RoundDiv(n, d) == (2 * n + d) \div (2 * d)

FNeg(x) == IF IsNaN(x) THEN NaN ELSE [x EXCEPT !.v = -x.v]

FAdd(x, y) ==
    IF IsNaN(x) \/ IsNaN(y) THEN NaN
    ELSE IF IsFin(x) /\ IsFin(y) THEN Fin(x.v + y.v)
    ELSE IF IsFin(x) THEN y
    ELSE IF IsFin(y) THEN x
    ELSE IF x.v = y.v THEN x ELSE NaN

FSub(x, y) == FAdd(x, FNeg(y))

FMul(x, y) ==
    IF IsNaN(x) \/ IsNaN(y) THEN NaN
    ELSE IF IsFin(x) /\ IsFin(y) THEN Fin(RoundDiv(x.v * y.v, FracUnit))
    ELSE IF Sgn(x.v) * Sgn(y.v) = 0 THEN NaN
    ELSE Inf(Sgn(x.v) * Sgn(y.v))

\* numpy scalar division: x/0 is +-inf and 0/0 is NaN (a warning, no exception).
FDiv(x, y) ==
    IF IsNaN(x) \/ IsNaN(y) THEN NaN
    ELSE IF IsFin(x) /\ IsFin(y) THEN
        IF y.v = 0 THEN (IF x.v = 0 THEN NaN ELSE Inf(Sgn(x.v)))
        ELSE Fin(Sgn(y.v) * RoundDiv(x.v * FracUnit, Sgn(y.v) * y.v))
    ELSE IF IsFin(y) THEN Inf(x.v * (IF y.v < 0 THEN -1 ELSE 1))
    ELSE IF IsFin(x) THEN Fin(0)
    ELSE NaN

RECURSIVE ISqrt(_, _, _)
\* The largest r in lo..hi with r*r <= n (lo*lo <= n).
ISqrt(n, lo, hi) ==
    IF lo >= hi THEN lo
    ELSE LET mid == (lo + hi + 1) \div 2
         IN  IF mid * mid <= n THEN ISqrt(n, mid, hi) ELSE ISqrt(n, lo, mid - 1)

FSqrt(x) ==
    IF IsNaN(x) THEN NaN
    ELSE IF ~IsFin(x) THEN (IF x.v > 0 THEN x ELSE NaN)
    ELSE IF x.v < 0 THEN NaN
    ELSE Fin(ISqrt(x.v * FracUnit, 0, 256 * FracUnit))

RECURSIVE FSum(_)
FSum(xs) == IF xs = <<>> THEN Fin(0) ELSE FAdd(Head(xs), FSum(Tail(xs)))

\* np.clip(x, lo, hi): NaN stays NaN, the infinities go to the ends.
FClip(x, lo, hi) ==
    IF IsNaN(x) THEN NaN
    ELSE IF ~IsFin(x) THEN (IF x.v > 0 THEN FromInt(hi) ELSE FromInt(lo))
    ELSE IF x.v < lo * FracUnit THEN FromInt(lo)
    ELSE IF x.v > hi * FracUnit THEN FromInt(hi)
    ELSE x

\* The bytes a float32 -> uint8 cast of NaN may give: the conversion is
\* undefined in C, and the build's conversion instruction fixes the result.
NaNCastOutcomes == {0, 255}
\* No NaN has been cast yet: the build's answer has not been observed.
NotCast == -1

\* ndarray.astype("uint8"): truncation towards zero, then the low 8 bits.
AsUint8(x, nanAs) ==
    IF IsNaN(x) THEN nanAs
    ELSE IF ~IsFin(x) THEN nanAs
    ELSE (Sgn(x.v) * ((Sgn(x.v) * x.v) \div FracUnit)) % 256

-----------------------------------------------------------------------------
(* images *)

\* The colours of the model's input images, as (B, G, R) bytes.
Black == <<0, 0, 0>>
White == <<255, 255, 255>>
Red == <<0, 0, 255>>
Palette == {Black, White, Red}

\* cv2.cvtColor(., COLOR_BGR2LAB) on 8-bit pixels: (L*255/100, a+128, b+128).
Bgr2Lab(p) ==
    CASE p = Black -> <<0, 128, 128>>
      [] p = White -> <<255, 128, 128>>
      [] p = Red -> <<136, 208, 195>>

\* cv2.cvtColor(., COLOR_LAB2BGR) on an 8-bit pixel: the three output bytes are
\* functions of the L*a*b triple that the model does not interpret.
Lab2Bgr(p) == << [ch |-> "B", lab |-> p], [ch |-> "G", lab |-> p], [ch |-> "R", lab |-> p] >>

\* An array of shape (h, w, ...): h*w entries, row by row.
Mat(h, w, px) == [h |-> h, w |-> w, px |-> px]
NoMat == Mat(0, 0, <<>>)
IsEmpty(m) == m.h * m.w = 0
MapMat(Op(_), m) == Mat(m.h, m.w, [i \in 1..Len(m.px) |-> Op(m.px[i])])

Shapes == {d \in (0..MaxPixels) \X (0..MaxPixels) : d[1] * d[2] <= MaxPixels}
Images == UNION {{Mat(d[1], d[2], px) : px \in [1..(d[1] * d[2]) -> Palette]} : d \in Shapes}

\* cv2.cvtColor(image, cv2.COLOR_BGR2LAB).astype("float32")
ToLabFloat(img) == MapMat(LAMBDA p : [c \in 1..3 |-> FromInt(Bgr2Lab(p)[c])], img)

\* One channel of cv2.split(image), a new array.
Channel(img, c) == MapMat(LAMBDA p : p[c], img)

\* Some entry of a 3-channel float array is NaN.
HasNaN(img) == \E i \in 1..Len(img.px) : \E c \in 1..3 : IsNaN(img.px[i][c])

\* cv2.merge([l, a, b])
MergeMats(x, y, z) == Mat(x.h, x.w, [i \in 1..Len(x.px) |-> <<x.px[i], y.px[i], z.px[i]>>])

-----------------------------------------------------------------------------
(* image_stats *)

\* ndarray.mean(): the sum of the entries over their number (0/0 = NaN when empty).
Mean(m) == FDiv(FSum(m.px), FromInt(Len(m.px)))

\* Mutant of Std: the sample standard deviation (divisor N - 1).
StdSample(m) ==
    LET mu == Mean(m)
        sq == [i \in 1..Len(m.px) |-> FMul(FSub(m.px[i], mu), FSub(m.px[i], mu))]
    IN  FSqrt(FDiv(FSum(sq), FromInt(Len(m.px) - 1)))

\* ndarray.std(): sqrt(mean(|x - mean|^2)), the population standard deviation.
Std(m) ==
    LET mu == Mean(m)
        sq == MapMat(LAMBDA x : FMul(FSub(x, mu), FSub(x, mu)), m)
    IN  FSqrt(Mean(sq))

\* image_stats(image) for an image cv2.split can split (a non-empty one).
ImageStats(img) ==
    LET l == Channel(img, 1)
        a == Channel(img, 2)
        b == Channel(img, 3)
    IN  <<Mean(l), Std(l), Mean(a), Std(a), Mean(b), Std(b)>>

-----------------------------------------------------------------------------
(* state *)

VARIABLES
    source, target,      \* the driver cell's images, the arguments of the first call
    source2, target2,    \* the arguments of the later calls
    calls,               \* the number of calls of color_transfer started
    returned,            \* the images the calls have returned, in order
    pc,                  \* the statement of color_transfer to run next
    stages,              \* the statements the current call has run
    srcLab, tarLab,      \* color_transfer's locals source and target, once rebound
    srcStats, tarStats,  \* the tuples image_stats returned
    l, a, b,             \* the channel arrays
    transfer,            \* the local transfer
    err,                 \* the exception that ended the call
    nanByte              \* what this build's float32 -> uint8 cast makes of NaN,
                         \* NotCast until a NaN has been cast

vars == <<source, target, source2, target2, calls, returned, pc, stages, srcLab,
          tarLab, srcStats, tarStats, l, a, b, transfer, err, nanByte>>

caller == <<source, target, source2, target2>>

SourceArg == IF calls = 1 THEN source ELSE source2
TargetArg == IF calls = 1 THEN target ELSE target2

\* (lMeanSrc, lStdSrc, aMeanSrc, aStdSrc, bMeanSrc, bStdSrc) = image_stats(source)
lMeanSrc == srcStats[1]
lStdSrc == srcStats[2]
aMeanSrc == srcStats[3]
aStdSrc == srcStats[4]
bMeanSrc == srcStats[5]
bStdSrc == srcStats[6]
\* (lMeanTar, lStdTar, aMeanTar, aStdTar, bMeanTar, bStdTar) = image_stats(target)
lMeanTar == tarStats[1]
lStdTar == tarStats[2]
aMeanTar == tarStats[3]
aStdTar == tarStats[4]
bMeanTar == tarStats[5]
bStdTar == tarStats[6]

Frame ==
    /\ pc = "convert_source"
    /\ stages = <<>>
    /\ srcLab = NoMat /\ tarLab = NoMat
    /\ srcStats = <<>> /\ tarStats = <<>>
    /\ l = NoMat /\ a = NoMat /\ b = NoMat
    /\ transfer = NoMat
    /\ err = "none"

\* The driver cell: two images are loaded and color_transfer is called; a later
\* call gets the same two images.
Init ==
    /\ source \in Images
    /\ target \in Images
    /\ source2 = source
    /\ target2 = target
    /\ nanByte = NotCast
    /\ calls = 1
    /\ returned = <<>>
    /\ Frame

Step(from, to) ==
    /\ pc = from
    /\ pc' = to
    /\ stages' = Append(stages, from)

Raise(from, e) ==
    /\ pc = from
    /\ pc' = "raised"
    /\ err' = e
    /\ UNCHANGED <<stages, srcLab, tarLab, srcStats, tarStats, l, a, b, transfer>>
    /\ UNCHANGED <<caller, calls, returned, nanByte>>

-----------------------------------------------------------------------------
(* color_transfer *)

\* Mutant of ConvertSource: the conversion writes its 8-bit result into the
\* caller's array (cv2.cvtColor with the source as its destination).
ConvertSourceInPlace ==
    /\ Step("convert_source", "convert_target")
    /\ srcLab' = ToLabFloat(SourceArg)
    /\ source' = MapMat(LAMBDA p : Bgr2Lab(p), source)
    /\ UNCHANGED <<tarLab, srcStats, tarStats, l, a, b, transfer, err>>
    /\ UNCHANGED <<target, source2, target2, calls, returned, nanByte>>

\* source = cv2.cvtColor(source, cv2.COLOR_BGR2LAB).astype("float32")
\* The result is a new array bound to the local name.  Of an image without
\* pixels OpenCV makes an error (ConvertSourceRaises) or, in releases without
\* that check, an image without pixels.
ConvertSource ==
    /\ Step("convert_source", "convert_target")
    /\ srcLab' = ToLabFloat(SourceArg)
    /\ UNCHANGED <<tarLab, srcStats, tarStats, l, a, b, transfer, err>>
    /\ UNCHANGED <<caller, calls, returned, nanByte>>

ConvertSourceRaises ==
    /\ IsEmpty(SourceArg)
    /\ Raise("convert_source", "cv2.error")

\* target = cv2.cvtColor(target, cv2.COLOR_BGR2LAB).astype("float32")
ConvertTarget ==
    /\ Step("convert_target", "stats_source")
    /\ tarLab' = ToLabFloat(TargetArg)
    /\ UNCHANGED <<srcLab, srcStats, tarStats, l, a, b, transfer, err>>
    /\ UNCHANGED <<caller, calls, returned, nanByte>>

ConvertTargetRaises ==
    /\ IsEmpty(TargetArg)
    /\ Raise("convert_target", "cv2.error")

\* (...) = image_stats(source)
StatsSource ==
    /\ Step("stats_source", "stats_target")
    /\ ~IsEmpty(srcLab)
    /\ srcStats' = ImageStats(srcLab)
    /\ UNCHANGED <<srcLab, tarLab, tarStats, l, a, b, transfer, err>>
    /\ UNCHANGED <<caller, calls, returned, nanByte>>

\* image_stats: (l, a, b) = cv2.split(image) of an image without pixels:
\* cv2.split returns no channel and the unpacking raises.
StatsSourceRaises ==
    /\ IsEmpty(srcLab)
    /\ Raise("stats_source", "ValueError")

\* Mutant of StatsTarget: statistics are taken of whatever array there is,
\* without the unpacking of cv2.split's channels.
StatsTargetUnchecked ==
    /\ Step("stats_target", "split")
    /\ tarStats' = ImageStats(tarLab)
    /\ UNCHANGED <<srcLab, tarLab, srcStats, l, a, b, transfer, err>>
    /\ UNCHANGED <<caller, calls, returned, nanByte>>

\* (...) = image_stats(target)
StatsTarget ==
    /\ Step("stats_target", "split")
    /\ ~IsEmpty(tarLab)
    /\ tarStats' = ImageStats(tarLab)
    /\ UNCHANGED <<srcLab, tarLab, srcStats, l, a, b, transfer, err>>
    /\ UNCHANGED <<caller, calls, returned, nanByte>>

StatsTargetRaises ==
    /\ IsEmpty(tarLab)
    /\ Raise("stats_target", "ValueError")

\* Mutant of Split: the channels of source are taken.
SplitOfSource ==
    /\ Step("split", "subtract")
    /\ l' = Channel(srcLab, 1)
    /\ a' = Channel(srcLab, 2)
    /\ b' = Channel(srcLab, 3)
    /\ UNCHANGED <<srcLab, tarLab, srcStats, tarStats, transfer, err>>
    /\ UNCHANGED <<caller, calls, returned, nanByte>>

\* (l, a, b) = cv2.split(target)
Split ==
    /\ Step("split", "subtract")
    /\ l' = Channel(tarLab, 1)
    /\ a' = Channel(tarLab, 2)
    /\ b' = Channel(tarLab, 3)
    /\ UNCHANGED <<srcLab, tarLab, srcStats, tarStats, transfer, err>>
    /\ UNCHANGED <<caller, calls, returned, nanByte>>

\* l -= lMeanTar; a -= aMeanTar; b -= bMeanTar
SubtractMean ==
    /\ Step("subtract", "scale")
    /\ l' = MapMat(LAMBDA x : FSub(x, lMeanTar), l)
    /\ a' = MapMat(LAMBDA x : FSub(x, aMeanTar), a)
    /\ b' = MapMat(LAMBDA x : FSub(x, bMeanTar), b)
    /\ UNCHANGED <<srcLab, tarLab, srcStats, tarStats, transfer, err>>
    /\ UNCHANGED <<caller, calls, returned, nanByte>>

\* Mutant of Scale: the a channel is scaled by the ratio of the l channel.
ScaleAByRatioOfL ==
    /\ Step("scale", "add")
    /\ l' = MapMat(LAMBDA x : FMul(FDiv(lStdTar, lStdSrc), x), l)
    /\ a' = MapMat(LAMBDA x : FMul(FDiv(lStdTar, lStdSrc), x), a)
    /\ b' = MapMat(LAMBDA x : FMul(FDiv(bStdTar, bStdSrc), x), b)
    /\ UNCHANGED <<srcLab, tarLab, srcStats, tarStats, transfer, err>>
    /\ UNCHANGED <<caller, calls, returned, nanByte>>

\* l = (lStdTar/lStdSrc)*l; a = (aStdTar/aStdSrc)*a; b = (bStdTar/bStdSrc)*b
Scale ==
    /\ Step("scale", "add")
    /\ l' = MapMat(LAMBDA x : FMul(FDiv(lStdTar, lStdSrc), x), l)
    /\ a' = MapMat(LAMBDA x : FMul(FDiv(aStdTar, aStdSrc), x), a)
    /\ b' = MapMat(LAMBDA x : FMul(FDiv(bStdTar, bStdSrc), x), b)
    /\ UNCHANGED <<srcLab, tarLab, srcStats, tarStats, transfer, err>>
    /\ UNCHANGED <<caller, calls, returned, nanByte>>

\* Mutant of AddMean: the clipping that follows is left out.
AddMeanThenMerge ==
    /\ Step("add", "merge")
    /\ l' = MapMat(LAMBDA x : FAdd(x, lMeanSrc), l)
    /\ a' = MapMat(LAMBDA x : FAdd(x, aMeanSrc), a)
    /\ b' = MapMat(LAMBDA x : FAdd(x, bMeanSrc), b)
    /\ UNCHANGED <<srcLab, tarLab, srcStats, tarStats, transfer, err>>
    /\ UNCHANGED <<caller, calls, returned, nanByte>>

\* l += lMeanSrc; a += aMeanSrc; b += bMeanSrc
AddMean ==
    /\ Step("add", "clip")
    /\ l' = MapMat(LAMBDA x : FAdd(x, lMeanSrc), l)
    /\ a' = MapMat(LAMBDA x : FAdd(x, aMeanSrc), a)
    /\ b' = MapMat(LAMBDA x : FAdd(x, bMeanSrc), b)
    /\ UNCHANGED <<srcLab, tarLab, srcStats, tarStats, transfer, err>>
    /\ UNCHANGED <<caller, calls, returned, nanByte>>

\* l = np.clip(l, 0, 255); a = np.clip(a, 0, 255); b = np.clip(b, 0, 255)
Clip ==
    /\ Step("clip", "merge")
    /\ l' = MapMat(LAMBDA x : FClip(x, 0, 255), l)
    /\ a' = MapMat(LAMBDA x : FClip(x, 0, 255), a)
    /\ b' = MapMat(LAMBDA x : FClip(x, 0, 255), b)
    /\ UNCHANGED <<srcLab, tarLab, srcStats, tarStats, transfer, err>>
    /\ UNCHANGED <<caller, calls, returned, nanByte>>

\* transfer = cv2.merge([l, a, b])
Merge ==
    /\ Step("merge", "convert_back")
    /\ transfer' = MergeMats(l, a, b)
    /\ UNCHANGED <<srcLab, tarLab, srcStats, tarStats, l, a, b, err>>
    /\ UNCHANGED <<caller, calls, returned, nanByte>>

\* transfer = cv2.cvtColor(transfer.astype("uint8"), cv2.COLOR_LAB2BGR)
ConvertBack ==
    /\ Step("convert_back", "return")
    /\ \E nb \in NaNCastOutcomes :
        /\ nanByte # NotCast => nb = nanByte
        /\ nanByte' = IF HasNaN(transfer) THEN nb ELSE nanByte
        /\ transfer' = MapMat(LAMBDA p : Lab2Bgr([c \in 1..3 |-> AsUint8(p[c], nb)]), transfer)
    /\ UNCHANGED <<srcLab, tarLab, srcStats, tarStats, l, a, b, err>>
    /\ UNCHANGED <<caller, calls, returned>>

\* return transfer
Return ==
    /\ Step("return", "done")
    /\ returned' = Append(returned, transfer)
    /\ UNCHANGED <<srcLab, tarLab, srcStats, tarStats, l, a, b, transfer, err>>
    /\ UNCHANGED <<caller, calls, nanByte>>

\* transfer = color_transfer(source, target), once more: a new frame.
CallAgain ==
    /\ pc = "done"
    /\ calls < MaxCalls
    /\ calls' = calls + 1
    /\ pc' = "convert_source"
    /\ stages' = <<>>
    /\ srcLab' = NoMat /\ tarLab' = NoMat
    /\ srcStats' = <<>> /\ tarStats' = <<>>
    /\ l' = NoMat /\ a' = NoMat /\ b' = NoMat
    /\ transfer' = NoMat
    /\ err' = "none"
    /\ UNCHANGED <<caller, returned, nanByte>>

Statement ==
    \/ ConvertSource
    \/ ConvertSourceRaises
    \/ ConvertTarget
    \/ ConvertTargetRaises
    \/ StatsSource
    \/ StatsSourceRaises
    \/ StatsTarget
    \/ StatsTargetRaises
    \/ Split
    \/ SubtractMean
    \/ Scale
    \/ AddMean
    \/ Clip
    \/ Merge
    \/ ConvertBack
    \/ Return

Next ==
    \/ Statement
    \/ CallAgain

Spec == Init /\ [][Next]_vars

-----------------------------------------------------------------------------
(* two calls that differ in one image *)

\* The 8-bit transfer-space values of channel c of an image.
Bytes(img, c) == [i \in 1..Len(img.px) |-> Bgr2Lab(img.px[i])[c]]

\* The statistics of channel c of an image in transfer space.
ChannelStats(img, c) ==
    LET ch == Channel(ToLabFloat(img), c) IN <<Mean(ch), Std(ch)>>

\* Images of one row at most.
RowImages == {m \in Images : m.h <= 1}

\* The images with the mean and standard deviation of s in some channel.
SameStatsInAChannel(s) ==
    IF IsEmpty(s) THEN {s}
    ELSE {t \in RowImages : ~IsEmpty(t) /\ \E c \in 1..3 : ChannelStats(t, c) = ChannelStats(s, c)}

\* The images of the shape of s with the values of s in some channel.
SameValuesInAChannel(s) ==
    {t \in RowImages : t.h = s.h /\ t.w = s.w /\ \E c \in 1..3 : Bytes(t, c) = Bytes(s, c)}

\* The driver calls color_transfer(source, target) and then
\* color_transfer(source2, target2), where either the targets are the same
\* image and the sources have the same statistics in a channel, or the
\* sources are the same image and the targets have the same values in a channel.
InitStats ==
    /\ source \in RowImages
    /\ source2 \in SameStatsInAChannel(source)
    /\ target \in RowImages
    /\ target2 \in IF source2 = source THEN SameValuesInAChannel(target) ELSE {target}
    /\ nanByte = NotCast
    /\ calls = 1
    /\ returned = <<>>
    /\ Frame

\* transfer = color_transfer(source2, target2): a new frame.
CallOther ==
    /\ calls = 1
    /\ CallAgain

NextStats ==
    \/ Statement
    \/ CallOther

SpecStats == InitStats /\ [][NextStats]_vars

-----------------------------------------------------------------------------
(* what the claims speak of *)

NonEmptyInputs == ~IsEmpty(SourceArg) /\ ~IsEmpty(TargetArg)

\* The channel arrays and the unpacked statistics, by channel 1..3 = (l, a, b).
Chans == <<l, a, b>>
SrcMean == <<lMeanSrc, aMeanSrc, bMeanSrc>>
SrcStd == <<lStdSrc, aStdSrc, bStdSrc>>
TarMean == <<lMeanTar, aMeanTar, bMeanTar>>
TarStd == <<lStdTar, aStdTar, bStdTar>>

\* The remap is complete (the source mean is added) and nothing is clipped yet.
Remapped == pc = "clip"

Pixels(m) == 1..Len(m.px)

\* C1 as stated: for every channel whose target standard deviation is not 0,
\* every value leaves the remap as
\* (v - targetMean) * (sourceStd / targetStd) + sourceMean.
C1_ScaleIsSourceOverTarget ==
    Remapped =>
        \A c \in 1..3 :
            TarStd[c] # Fin(0) =>
                \A i \in Pixels(tarLab) :
                    Chans[c].px[i] =
                        FAdd(FMul(FSub(tarLab.px[i][c], TarMean[c]),
                                  FDiv(SrcStd[c], TarStd[c])),
                             SrcMean[c])

\* C2 as stated: a channel of the target with standard deviation 0 is remapped
\* without NaN, every value of it being the source's mean of that channel.
C2_ConstantChannelGetsSourceMean ==
    Remapped =>
        \A c \in 1..3 :
            TarStd[c] = Fin(0) =>
                \A i \in Pixels(tarLab) :
                    /\ IsFin(Chans[c].px[i])
                    /\ Chans[c].px[i] = SrcMean[c]

\* C3 as stated: every value handed to the uint8 cast lies in [0, 255].
C3_CastInputInRange ==
    pc = "convert_back" =>
        \A i \in Pixels(transfer) : \A c \in 1..3 :
            /\ IsFin(transfer.px[i][c])
            /\ 0 <= transfer.px[i][c].v
            /\ transfer.px[i][c].v <= 255 * FracUnit

\* C4: a call with non-empty images does not raise, and every image returned
\* has the height and width of target, whatever source's, and 3 channels.
C4_ResultHasTargetShape ==
    /\ NonEmptyInputs => pc # "raised"
    /\ \A k \in 1..Len(returned) :
        /\ returned[k].h = target.h
        /\ returned[k].w = target.w
        /\ Len(returned[k].px) = target.h * target.w
        /\ \A i \in Pixels(returned[k]) : Len(returned[k].px[i]) = 3

C4_Witness ==
    /\ returned # <<>>
    /\ source.h # target.h
    /\ source.w # target.w

\* The statements of color_transfer in the order of the source text.
StageOrder ==
    << "convert_source", "convert_target", "stats_source", "stats_target", "split",
       "subtract", "scale", "add", "clip", "merge", "convert_back", "return" >>

\* C5: the stages of a call run in the order convert, statistics, subtract,
\* scale, add, clip, quantise and convert back, none skipped or repeated; the
\* statistics are those of the unmodified float conversions; the values stay
\* floats until the last stage.
C5_StagesInOrder ==
    /\ Len(stages) <= Len(StageOrder)
    /\ stages = SubSeq(StageOrder, 1, Len(stages))
    /\ \/ pc = "raised"
       \/ pc = "done" /\ stages = StageOrder
       \/ Len(stages) < Len(StageOrder) /\ pc = StageOrder[Len(stages) + 1]
    /\ Len(stages) >= 4 /\ pc # "raised" =>
        /\ srcLab = ToLabFloat(SourceArg)
        /\ tarLab = ToLabFloat(TargetArg)
        /\ srcStats = ImageStats(srcLab)
        /\ tarStats = ImageStats(tarLab)
    /\ Len(stages) < 11 => transfer \in {NoMat, MergeMats(l, a, b)}

C5_Witness == pc = "done" /\ stages = StageOrder

EmptyInput == IsEmpty(SourceArg) \/ IsEmpty(TargetArg)

\* C6: a call with an image of no pixels as source or target ends in an error
\* after at most three statements: it never gets past the statistics, it
\* returns no image, and image_stats returns no statistics of the empty image.
C6_EmptyImageRaises ==
    EmptyInput =>
        /\ pc \in {"convert_source", "convert_target", "stats_source", "stats_target", "raised"}
        /\ Len(stages) <= 3
        /\ pc = "raised" <=> err \in {"cv2.error", "ValueError"}
        /\ returned = <<>>
        /\ transfer = NoMat
        /\ IsEmpty(SourceArg) => srcStats = <<>>
        /\ IsEmpty(TargetArg) => tarStats = <<>>
        /\ pc = "stats_target" => ~IsEmpty(srcLab) /\ IsEmpty(tarLab)

C6_Witness ==
    /\ pc = "raised"
    /\ err = "ValueError"
    /\ ~IsEmpty(source)
    /\ IsEmpty(target)
    /\ target.h > 0

\* C7 as stated: with the same image as source and target the remap leaves
\* every transfer-space value as it was, constant channels included.
C7_SelfTransferIsIdentity ==
    Remapped /\ SourceArg = TargetArg =>
        \A c \in 1..3 : \A i \in Pixels(tarLab) : Chans[c].px[i] = tarLab.px[i][c]

RECURSIVE SumSeq(_)
SumSeq(xs) == IF xs = <<>> THEN 0 ELSE Head(xs) + SumSeq(Tail(xs))

\* mean and std are, to within tol units, the arithmetic mean and the
\* population standard deviation of the integers xs: with n = Len(xs),
\* mean = sum/n and std^2 = (n * sum of squares - sum^2) / n^2.
IsMeanAndPopStd(mean, std, xs, tol) ==
    LET n == Len(xs)
        sum == SumSeq(xs)
        sumSq == SumSeq([i \in 1..n |-> xs[i] * xs[i]])
        lo == IF std.v > tol THEN std.v - tol ELSE 0
        hi == std.v + tol
    IN  /\ IsFin(mean)
        /\ 2 * (mean.v * n - sum * FracUnit) <= n
        /\ 2 * (sum * FracUnit - mean.v * n) <= n
        /\ IsFin(std)
        /\ std.v >= 0
        /\ lo * lo * n * n <= (n * sumSq - sum * sum) * FracUnit * FracUnit
        /\ (n * sumSq - sum * sum) * FracUnit * FracUnit <= hi * hi * n * n
        /\ (\A i \in 1..n : xs[i] = xs[1]) => mean = FromInt(xs[1]) /\ std = Fin(0)

\* C8: the statistics color_transfer unpacks are, per channel and in the order
\* (lMean, lStd, aMean, aStd, bMean, bStd), the arithmetic mean and the
\* population standard deviation (divisor N) of the channel's H*W samples; a
\* channel constant at k has mean k and standard deviation 0.
C8_StatsAreMeanAndPopulationStd ==
    Len(stages) >= 4 /\ pc # "raised" =>
        \A c \in 1..3 :
            /\ IsMeanAndPopStd(SrcMean[c], SrcStd[c], Bytes(SourceArg, c), 1)
            /\ IsMeanAndPopStd(TarMean[c], TarStd[c], Bytes(TargetArg, c), 1)

C8_Witness ==
    /\ pc = "split"
    /\ lStdSrc # Fin(0)
    /\ aStdSrc = Fin(0)
    /\ aMeanSrc = FromInt(128)
    /\ Len(target.px) = MaxPixels
    /\ bStdTar # Fin(0)

\* C9: no step of a call changes the caller's images, and a call repeated with
\* the same images returns the image the first call returned.
C9_CallerBuffersKeptAndCallsRepeat ==
    [][ /\ source' = source
        /\ target' = target
        /\ source2' = source2
        /\ target2' = target2
        /\ Len(returned') > Len(returned) /\ returned # <<>> =>
              returned'[Len(returned')] = returned[1]
      ]_vars

C9_Witness ==
    /\ Len(returned) = MaxCalls
    /\ nanByte # NotCast
    /\ source # target

\* The 8-bit transfer-space values of channel c that a returned image was
\* converted from.
LabBytes(img, c) == [i \in 1..Len(img.px) |-> img.px[i][1].lab[c]]

\* C10: two calls whose targets agree in channel c and whose sources have the
\* same mean and standard deviation in channel c give the same channel c of
\* the remapped image, whatever else differs between the sources; when that
\* holds of the three channels the two calls return the same image.
C10_SourceCountsOnlyThroughStats ==
    Len(returned) >= 2 =>
        /\ \A c \in 1..3 :
              /\ Bytes(target, c) = Bytes(target2, c)
              /\ ChannelStats(source, c) = ChannelStats(source2, c)
              => LabBytes(returned[1], c) = LabBytes(returned[2], c)
        /\ /\ target = target2
           /\ \A c \in 1..3 : ChannelStats(source, c) = ChannelStats(source2, c)
           => returned[1] = returned[2]

C10_Witness ==
    /\ Len(returned) >= 2
    /\ target = target2
    /\ <<source.h, source.w>> # <<source2.h, source2.w>>
    /\ Len(source.px) # Len(source2.px)
    /\ ChannelStats(source, 1) # ChannelStats(source2, 1)
    /\ ChannelStats(source, 2) = ChannelStats(source2, 2)

====
